---------------------------- MODULE Spec2Model ----------------------------
(***************************************************************************)
(* Model of the lead-enrichment server (src/mcp-enrichment/server.js) and  *)
(* of the leads table it writes (src/database/init/01-create-tables.sql,   *)
(* src/README.md).                                                         *)
(*                                                                         *)
(* Representation.  A JavaScript string is a sequence of one-character     *)
(* strings; the accented letters of the source are written a' e' i' o' u'  *)
(* n~ (one element each).  undefined and null are the value Undefined.      *)
(* Names of sources, platforms and positions are TLA+ strings.                 *)
(* An email or founder confidence is an integer number of tenths (0.8 is   *)
(* 8); confidence_score is an exact fraction [num, den] in lowest terms.   *)
(* Times are milliseconds.                                                 *)
(***************************************************************************)
EXTENDS Integers, Sequences, FiniteSets, TLC

VARIABLES
  enableDbSave,       \* process.env.ENABLE_DATABASE_SAVE === 'true'
  schema,             \* which CREATE TABLE IF NOT EXISTS leads built the table
  redisClient,        \* "null" | "closed" (client, not isOpen) | "open"
  redisPc,            \* position of connectRedis()
  cache,              \* the Redis store: set of [key, value, expires]
  leads,              \* rows of table leads, in insertion order
  nextId,             \* the SERIAL sequence of leads.id
  now,                \* Date.now()
  pc,                 \* position of the request being handled
  req,                \* the request being handled
  idx,                \* 1-based position of the batch loop
  result,             \* enrichCompanyComplete's result object
  startTime,          \* enrichCompanyComplete's startTime
  enrichedCompanies,  \* the batch handler's enrichedCompanies
  saved,              \* what saveLeadToDatabase returned to the handler
  response,           \* the last HTTP response
  calls,              \* number of enrichCompanyComplete calls so far
  hist,               \* history of the current call, read only by the properties
  probe,              \* one application of a pure function (SpecProbe)
  handlers            \* the locals of two requests handled concurrently (SpecConc)

vars == <<enableDbSave, schema, redisClient, redisPc, cache, leads, nextId, now,
          pc, req, idx, result, startTime, enrichedCompanies, saved, response,
          calls, hist, probe, handlers>>

\* undefined / null, and the completion of a call that threw.  Both are
\* one-element sequences, so that they compare with strings.
Undefined == <<"#undefined">>
Throw == <<"#throw">>

-----------------------------------------------------------------------------
(* Strings *)

LowerLetters == {"a","b","c","d","e","f","g","h","i","j","k","l","m","n","o",
                 "p","q","r","s","t","u","v","w","x","y","z"}
Digits == {"0","1","2","3","4","5","6","7","8","9"}

UpperToLower ==
  [c \in {"A","B","C","D","E","F","G","H","I","J","K","L","M","N","O","P","Q",
          "R","S","T","U","V","W","X","Y","Z"} |->
     CASE c = "A" -> "a" [] c = "B" -> "b" [] c = "C" -> "c" [] c = "D" -> "d"
       [] c = "E" -> "e" [] c = "F" -> "f" [] c = "G" -> "g" [] c = "H" -> "h"
       [] c = "I" -> "i" [] c = "J" -> "j" [] c = "K" -> "k" [] c = "L" -> "l"
       [] c = "M" -> "m" [] c = "N" -> "n" [] c = "O" -> "o" [] c = "P" -> "p"
       [] c = "Q" -> "q" [] c = "R" -> "r" [] c = "S" -> "s" [] c = "T" -> "t"
       [] c = "U" -> "u" [] c = "V" -> "v" [] c = "W" -> "w" [] c = "X" -> "x"
       [] c = "Y" -> "y" [] c = "Z" -> "z"]

\* String.prototype.toLowerCase
toLowerCase(s) ==
  [i \in 1..Len(s) |-> IF s[i] \in DOMAIN UpperToLower THEN UpperToLower[s[i]] ELSE s[i]]

\* s with every character outside `keep` removed: s.replace(/[^...]/g, '')
RECURSIVE Keep(_, _)
Keep(s, keep) ==
  IF s = <<>> THEN <<>>
  ELSE (IF Head(s) \in keep THEN <<Head(s)>> ELSE <<>>) \o Keep(Tail(s), keep)

\* s.replace(/\s+/g, '')
StripSpaces(s) == Keep(s, {s[i] : i \in 1..Len(s)} \ {" "})

\* String.prototype.includes
Includes(s, sub) ==
  \E i \in 0..(Len(s) - Len(sub)) : SubSeq(s, i + 1, i + Len(sub)) = sub

\* String.prototype.endsWith
EndsWith(s, suf) ==
  Len(s) >= Len(suf) /\ SubSeq(s, Len(s) - Len(suf) + 1, Len(s)) = suf

StartsWith(s, pre) == Len(s) >= Len(pre) /\ SubSeq(s, 1, Len(pre)) = pre

\* s.substring(0, n)
Substring0(s, n) == SubSeq(s, 1, IF Len(s) < n THEN Len(s) ELSE n)

\* Template-literal interpolation `${v}`: undefined prints as "undefined".
Interp(v) == IF v = Undefined THEN <<"u", "n", "d", "e", "f", "i", "n", "e", "d">> ELSE v

\* Array.prototype.join(' ')
RECURSIVE JoinSpace(_)
JoinSpace(ss) ==
  IF ss = <<>> THEN <<>>
  ELSE IF Len(ss) = 1 THEN ss[1]
  ELSE ss[1] \o <<" ">> \o JoinSpace(Tail(ss))

AtSign == "@"

Min(a, b) == IF a < b THEN a ELSE b

-----------------------------------------------------------------------------
(* Exact fractions, for the floating-point scores *)

RECURSIVE GCD(_, _)
GCD(a, b) == IF b = 0 THEN a ELSE GCD(b, a % b)

Rat(n, d) == LET g == GCD(n, d) IN [num |-> n \div g, den |-> d \div g]
RZero == [num |-> 0, den |-> 1]
RAdd(x, y) == Rat(x.num * y.den + y.num * x.den, x.den * y.den)
RMul(x, y) == Rat(x.num * y.num, x.den * y.den)
RDiv(x, y) == Rat(x.num * y.den, x.den * y.num)
RMin(x, y) == IF x.num * y.den < y.num * x.den THEN x ELSE y
RLeq(x, y) == x.num * y.den <= y.num * x.den
Tenths(n) == Rat(n, 10)

-----------------------------------------------------------------------------
(* Discovery and utility functions *)

Alnum == LowerLetters \cup Digits

\* performWebSearch: the two templated results; a TypeError on a name that
\* is not a string is caught inside and gives [].
performWebSearch(companyName, location) ==
  IF companyName = Undefined THEN <<>>
  ELSE LET slug == StripSpaces(toLowerCase(companyName)) IN
       << [title   |-> companyName \o <<" ", "-", " ", "E", "m", "p", "r", "e", "s", "a", " ", "e", "n", " ">> \o Interp(location),
           url     |-> <<"h", "t", "t", "p", "s", ":", "/", "/">> \o slug \o <<".", "c", "o", "m", ".", "m", "x">>,
           snippet |-> <<"I", "n", "f", "o", "r", "m", "a", "c", "i", "o'", "n", " ", "d", "e", " ">> \o companyName \o <<" ", "u", "b", "i", "c", "a", "d", "a", " ", "e", "n", " ">>
                       \o Interp(location) \o <<".", " ", "S", "e", "r", "v", "i", "c", "i", "o", "s", " ", "y", " ", "c", "o", "n", "t", "a", "c", "t", "o", ".">>],
          [title   |-> <<"C", "o", "n", "t", "a", "c", "t", "o", " ">> \o companyName,
           url     |-> <<"h", "t", "t", "p", "s", ":", "/", "/", "d", "i", "r", "e", "c", "t", "o", "r", "i", "o", ".">> \o slug \o <<".", "m", "x">>,
           snippet |-> <<"D", "i", "r", "e", "c", "t", "o", "r", "i", "o", " ", "d", "e", " ", "c", "o", "n", "t", "a", "c", "t", "o", " ", "p", "a", "r", "a", " ">> \o companyName
                       \o <<".", " ", "T", "e", "l", "e'", "f", "o", "n", "o", "s", " ", "y", " ", "e", "m", "a", "i", "l", "s", ".">>] >>

RECURSIVE FirstMatchingUrl(_, _)
FirstMatchingUrl(webResults, cleanName) ==
  IF webResults = <<>> THEN Undefined
  ELSE LET url == toLowerCase(Head(webResults).url) IN
       IF Includes(url, cleanName)
          /\ (Includes(url, <<".", "c", "o", "m", ".", "m", "x">>) \/ Includes(url, <<".", "m", "x">>)
              \/ Includes(url, <<".", "c", "o", "m">>))
       THEN Head(webResults).url
       ELSE FirstMatchingUrl(Tail(webResults), cleanName)

\* findOfficialWebsite: the first result whose url contains the cleaned name
\* and one of the three suffixes; Throw on a name that is not a string.
findOfficialWebsite(webResults, companyName) ==
  IF companyName = Undefined THEN Throw
  ELSE FirstMatchingUrl(webResults, Keep(toLowerCase(companyName), Alnum))

\* new URL(website).hostname for the URLs the model builds: an http or https
\* scheme followed by a non-empty host of letters, digits, dots and hyphens,
\* then end of input or a path.  Anything else is "Invalid URL" (Throw).
HostChars == Alnum \cup {".", "-"}
RECURSIVE HostPrefix(_)
HostPrefix(s) ==
  IF s = <<>> \/ Head(s) \notin HostChars THEN <<>>
  ELSE <<Head(s)>> \o HostPrefix(Tail(s))

URLHostname(website) ==
  LET rest == IF StartsWith(website, <<"h", "t", "t", "p", "s", ":", "/", "/">>) THEN SubSeq(website, 9, Len(website))
              ELSE IF StartsWith(website, <<"h", "t", "t", "p", ":", "/", "/">>) THEN SubSeq(website, 8, Len(website))
              ELSE Throw
      host == HostPrefix(toLowerCase(rest))
      after == SubSeq(rest, Len(host) + 1, Len(rest))
  IN IF rest = Throw \/ host = <<>> THEN Throw
     ELSE IF after /= <<>> /\ Head(after) /= "/" THEN Throw
     ELSE host

Truthy(s) == s /= Undefined /\ s /= <<>>

\* guessDomain: the website's hostname when it parses, else the slug of the
\* name with .com.mx; Throw on a name that is not a string.
guessDomain(companyName, website) ==
  LET host == IF Truthy(website) THEN URLHostname(website) ELSE Throw IN
  IF host /= Throw THEN host
  ELSE IF companyName = Undefined THEN Throw
  ELSE StripSpaces(Keep(toLowerCase(companyName), Alnum \cup {" "})) \o <<".", "c", "o", "m", ".", "m", "x">>

\* calculateEmailConfidence, in tenths
calculateEmailConfidence(email, companyName) ==
  LET at == CHOOSE i \in 1..Len(email) : email[i] = AtSign /\ \A j \in 1..(i-1) : email[j] /= AtSign
      domain == SubSeq(email, at + 1, Len(email))
      cleanCompany == Keep(toLowerCase(companyName), Alnum)
      c1 == 5 + (IF Truthy(domain) /\ Includes(domain, Substring0(cleanCompany, 8))
                 THEN 3 ELSE 0)
      c2 == c1 + (IF Includes(email, <<"c", "o", "n", "t", "a", "c", "t", "o", "@">>) \/ Includes(email, <<"i", "n", "f", "o", "@">>)
                  THEN 2 ELSE 0)
      c3 == c2 + (IF Truthy(domain) /\ EndsWith(domain, <<".", "c", "o", "m", ".", "m", "x">>) THEN 1 ELSE 0)
  IN Min(c3, 10)

getEmailPriority(email) ==
  IF Includes(email, <<"c", "o", "n", "t", "a", "c", "t", "o", "@">>) THEN 1
  ELSE IF Includes(email, <<"i", "n", "f", "o", "@">>) THEN 2
  ELSE IF Includes(email, <<"v", "e", "n", "t", "a", "s", "@">>) THEN 3
  ELSE IF Includes(email, <<"a", "d", "m", "i", "n", "i", "s", "t", "r", "a", "c", "i", "o", "n", "@">>) THEN 4
  ELSE IF Includes(email, <<"g", "e", "r", "e", "n", "c", "i", "a", "@">>) THEN 5
  ELSE 6

\* The local parts of findContactEmails' patterns, in the order of the source.
EmailLocalParts ==
  << <<"c", "o", "n", "t", "a", "c", "t", "o">>, <<"i", "n", "f", "o">>, <<"v", "e", "n", "t", "a", "s">>, <<"a", "d", "m", "i", "n", "i", "s", "t", "r", "a", "c", "i", "o", "n">>, <<"g", "e", "r", "e", "n", "c", "i", "a">>,
     <<"a", "t", "e", "n", "c", "i", "o", "n">>, <<"c", "o", "m", "e", "r", "c", "i", "a", "l">>, <<"d", "i", "r", "e", "c", "t", "o", "r">> >>

\* The comparator with the operands of its tie-break swapped.
EmailCompareSwapped(a, b) ==
  IF b.confidence /= a.confidence THEN b.confidence - a.confidence
  ELSE b.priority - a.priority

\* The comparator of emails.sort: negative when a goes first.
EmailCompare(a, b) ==
  IF b.confidence /= a.confidence THEN b.confidence - a.confidence
  ELSE a.priority - b.priority

\* Array.prototype.sort (stable) with EmailCompare, as an insertion sort.
RECURSIVE InsertSorted(_, _)
InsertSorted(sorted, x) ==
  IF sorted = <<>> THEN <<x>>
  ELSE IF EmailCompare(Head(sorted), x) <= 0
       THEN <<Head(sorted)>> \o InsertSorted(Tail(sorted), x)
       ELSE <<x>> \o sorted

RECURSIVE SortEmails(_)
SortEmails(emails) ==
  IF emails = <<>> THEN <<>>
  ELSE InsertSorted(SortEmails(SubSeq(emails, 1, Len(emails) - 1)), emails[Len(emails)])

\* emails.slice(0, 5)
TopEmails(emails) == SubSeq(emails, 1, Min(Len(emails), 5))

findContactEmails(companyName, website) ==
  LET domain == guessDomain(companyName, website) IN
  IF domain = Throw THEN <<>>
  ELSE LET emails ==
             IF Truthy(domain)
             THEN [i \in 1..Len(EmailLocalParts) |->
                     LET email == EmailLocalParts[i] \o <<AtSign>> \o domain IN
                     [email      |-> email,
                      confidence |-> calculateEmailConfidence(email, companyName),
                      source     |-> "pattern_generation",
                      validated  |-> FALSE,
                      priority   |-> getEmailPriority(email)]]
             ELSE <<>>
       IN TopEmails(SortEmails(emails))

\* searchFounders: the first `count` entries of the roster, count being
\* Math.floor(Math.random() * 3) for the draw d (in hundredths).
FoundersPatterns ==
  << [name |-> "Maria Gonzalez",  position |-> "Fundadora y CEO",  confidence |-> 8],
     [name |-> "Carlos Martinez", position |-> "Director General", confidence |-> 7],
     [name |-> "Ana Lopez",       position |-> "Propietaria",      confidence |-> 6] >>

searchFounders(companyName, location, d) ==
  [i \in 1..((d * 3) \div 100) |->
     [name       |-> FoundersPatterns[i].name,
      position   |-> FoundersPatterns[i].position,
      confidence |-> FoundersPatterns[i].confidence,
      source     |-> "web_search",
      found_via  |-> Interp(companyName) \o <<" ">> \o Interp(location) \o <<" ", "f", "u", "n", "d", "a", "d", "o", "r">>,
      verified   |-> FALSE]]

\* findSocialMedia: r1, r2, r3 are the three Math.random() draws, in
\* hundredths; a TypeError on a name that is not a string is caught inside
\* and gives {}.  The mapping is a set of [platform, url].
findSocialMedia(companyName, r1, r2, r3) ==
  IF companyName = Undefined THEN {}
  ELSE LET cleanName == StripSpaces(toLowerCase(companyName)) IN
       (IF r1 > 50 THEN {[platform |-> "facebook",
                          url |-> <<"h", "t", "t", "p", "s", ":", "/", "/", "f", "a", "c", "e", "b", "o", "o", "k", ".", "c", "o", "m", "/">> \o cleanName]} ELSE {})
       \cup (IF r2 > 60 THEN {[platform |-> "instagram",
                               url |-> <<"h", "t", "t", "p", "s", ":", "/", "/", "i", "n", "s", "t", "a", "g", "r", "a", "m", ".", "c", "o", "m", "/">> \o cleanName]} ELSE {})
       \cup (IF r3 > 80 THEN {[platform |-> "linkedin",
                               url |-> <<"h", "t", "t", "p", "s", ":", "/", "/", "l", "i", "n", "k", "e", "d", "i", "n", ".", "c", "o", "m", "/", "c", "o", "m", "p", "a", "n", "y", "/">> \o cleanName]} ELSE {})

\* The industries table of detectIndustry, in its declared order.
Industries ==
  << [industry |-> <<"r", "e", "s", "t", "a", "u", "r", "a", "n", "t", "e">>,
      keywords |-> << <<"t", "a", "c", "o">>, <<"c", "o", "m", "i", "d", "a">>, <<"r", "e", "s", "t", "a", "u", "r", "a", "n", "t">>, <<"c", "o", "c", "i", "n", "a">>, <<"m", "e", "n", "u">> >>],
     [industry |-> <<"p", "a", "n", "a", "d", "e", "r", "i'", "a">>,
      keywords |-> << <<"p", "a", "n">>, <<"p", "a", "n", "a", "d", "e", "r", "i'", "a">>, <<"r", "e", "p", "o", "s", "t", "e", "r", "i'", "a">>, <<"p", "a", "s", "t", "e", "l">> >>],
     [industry |-> <<"c", "o", "n", "s", "t", "r", "u", "c", "c", "i", "o'", "n">>,
      keywords |-> << <<"c", "o", "n", "s", "t", "r", "u", "c", "c", "i", "o'", "n">>, <<"e", "d", "i", "f", "i", "c", "a", "c", "i", "o'", "n">>, <<"o", "b", "r", "a">>, <<"a", "l", "b", "a", "n~", "i", "l">> >>],
     [industry |-> <<"t", "e", "c", "n", "o", "l", "o", "g", "i'", "a">>,
      keywords |-> << <<"s", "o", "f", "t", "w", "a", "r", "e">>, <<"t", "e", "c", "h">>, <<"s", "i", "s", "t", "e", "m", "a">>, <<"d", "i", "g", "i", "t", "a", "l">>, <<"w", "e", "b">> >>],
     [industry |-> <<"s", "e", "r", "v", "i", "c", "i", "o", "s">>,
      keywords |-> << <<"s", "e", "r", "v", "i", "c", "i", "o">>, <<"c", "o", "n", "s", "u", "l", "t", "o", "r", "i'", "a">>, <<"a", "s", "e", "s", "o", "r", "i'", "a">>, <<"m", "a", "n", "t", "e", "n", "i", "m", "i", "e", "n", "t", "o">> >>],
     [industry |-> <<"c", "o", "m", "e", "r", "c", "i", "o">>,
      keywords |-> << <<"t", "i", "e", "n", "d", "a">>, <<"v", "e", "n", "t", "a">>, <<"c", "o", "m", "e", "r", "c", "i", "o">>, <<"n", "e", "g", "o", "c", "i", "o">> >>],
     [industry |-> <<"s", "a", "l", "u", "d">>,
      keywords |-> << <<"c", "l", "i'", "n", "i", "c", "a">>, <<"m", "e'", "d", "i", "c", "o">>, <<"d", "e", "n", "t", "a", "l">>, <<"f", "a", "r", "m", "a", "c", "i", "a">> >>],
     [industry |-> <<"e", "d", "u", "c", "a", "c", "i", "o'", "n">>,
      keywords |-> << <<"e", "s", "c", "u", "e", "l", "a">>, <<"a", "c", "a", "d", "e", "m", "i", "a">>, <<"i", "n", "s", "t", "i", "t", "u", "t", "o">>, <<"c", "u", "r", "s", "o">> >>] >>

\* The table searched from its end: the last industry that matches.
RECURSIVE LastIndustry(_, _, _)
LastIndustry(table, text, webText) ==
  IF table = <<>> THEN <<"g", "e", "n", "e", "r", "a", "l">>
  ELSE LET later == LastIndustry(Tail(table), text, webText) IN
       IF later /= <<"g", "e", "n", "e", "r", "a", "l">> THEN later
       ELSE IF \E k \in 1..Len(Head(table).keywords) :
                  Includes(text, Head(table).keywords[k])
                  \/ Includes(webText, Head(table).keywords[k])
            THEN Head(table).industry
            ELSE <<"g", "e", "n", "e", "r", "a", "l">>

RECURSIVE FirstIndustry(_, _, _)
FirstIndustry(table, text, webText) ==
  IF table = <<>> THEN <<"g", "e", "n", "e", "r", "a", "l">>
  ELSE IF \E k \in 1..Len(Head(table).keywords) :
             Includes(text, Head(table).keywords[k])
             \/ Includes(webText, Head(table).keywords[k])
       THEN Head(table).industry
       ELSE FirstIndustry(Tail(table), text, webText)

\* detectIndustry; Throw on a name that is not a string.
detectIndustry(companyName, webResults) ==
  IF companyName = Undefined THEN Throw
  ELSE FirstIndustry(Industries,
                     toLowerCase(companyName),
                     toLowerCase(JoinSpace([i \in 1..Len(webResults) |->
                                              webResults[i].snippet])))

-----------------------------------------------------------------------------
(* Scoring *)

\* calculateLeadScore with the sources bonus from two sources on (>= for >).
calculateLeadScoreTwoSources(r) ==
  LET s0 == 0 + 20
      s1 == IF Len(r.emails) > 0 THEN s0 + 20 + Min(Len(r.emails) * 3, 10) ELSE s0
      s2 == IF Len(r.founders) > 0 THEN s1 + 25 ELSE s1
      s3 == IF Truthy(r.website) THEN s2 + 15 ELSE s2
      s4 == IF Truthy(r.industry) /\ r.industry /= <<"g", "e", "n", "e", "r", "a", "l">> THEN s3 + 10 ELSE s3
      s5 == IF Cardinality(r.social_media) > 0 THEN s4 + 5 ELSE s4
      s6 == IF Len(r.sources) >= 2 THEN s5 + 5 ELSE s5
  IN Min(s6, 100)

\* calculateLeadScore returning the sum without the final Math.min.
calculateLeadScoreUnclamped(r) ==
  LET s0 == 0 + 20
      s1 == IF Len(r.emails) > 0 THEN s0 + 20 + Min(Len(r.emails) * 3, 10) ELSE s0
      s2 == IF Len(r.founders) > 0 THEN s1 + 25 ELSE s1
      s3 == IF Truthy(r.website) THEN s2 + 15 ELSE s2
      s4 == IF Truthy(r.industry) /\ r.industry /= <<"g", "e", "n", "e", "r", "a", "l">> THEN s3 + 10 ELSE s3
      s5 == IF Cardinality(r.social_media) > 0 THEN s4 + 5 ELSE s4
      s6 == IF Len(r.sources) > 2 THEN s5 + 5 ELSE s5
  IN s6

\* calculateLeadScore: the running sum of the source, statement by statement.
calculateLeadScore(r) ==
  LET s0 == 0 + 20
      s1 == IF Len(r.emails) > 0 THEN s0 + 20 + Min(Len(r.emails) * 3, 10) ELSE s0
      s2 == IF Len(r.founders) > 0 THEN s1 + 25 ELSE s1
      s3 == IF Truthy(r.website) THEN s2 + 15 ELSE s2
      s4 == IF Truthy(r.industry) /\ r.industry /= <<"g", "e", "n", "e", "r", "a", "l">> THEN s3 + 10 ELSE s3
      s5 == IF Cardinality(r.social_media) > 0 THEN s4 + 5 ELSE s4
      s6 == IF Len(r.sources) > 2 THEN s5 + 5 ELSE s5
  IN Min(s6, 100)

\* reduce((sum, x) => sum + (x.confidence || 0), 0), in tenths
RECURSIVE SumConfidence(_)
SumConfidence(xs) ==
  IF xs = <<>> THEN 0 ELSE Head(xs).confidence + SumConfidence(Tail(xs))

\* calculateConfidenceScore with the sources term left uncapped
\* (result.sources.length * 0.1 without Math.min).
calculateConfidenceScoreUncapped(r) ==
  LET c1 == IF Len(r.emails) > 0
            THEN RAdd(RZero, RMul(Rat(SumConfidence(r.emails), 10 * Len(r.emails)), Tenths(4)))
            ELSE RZero
      f1 == IF Len(r.emails) > 0 THEN RAdd(RZero, Tenths(4)) ELSE RZero
      c2 == IF Len(r.founders) > 0
            THEN RAdd(c1, RMul(Rat(SumConfidence(r.founders), 10 * Len(r.founders)), Tenths(3)))
            ELSE c1
      f2 == IF Len(r.founders) > 0 THEN RAdd(f1, Tenths(3)) ELSE f1
      c3 == IF Len(r.sources) > 0 THEN RAdd(c2, Tenths(Len(r.sources))) ELSE c2
      f3 == IF Len(r.sources) > 0 THEN RAdd(f2, Tenths(3)) ELSE f2
  IN IF f3.num > 0 THEN RDiv(c3, f3) ELSE RZero

\* calculateConfidenceScore: confidence and factors as the source accumulates
\* them, in exact arithmetic.
calculateConfidenceScore(r) ==
  LET c1 == IF Len(r.emails) > 0
            THEN RAdd(RZero, RMul(Rat(SumConfidence(r.emails), 10 * Len(r.emails)), Tenths(4)))
            ELSE RZero
      f1 == IF Len(r.emails) > 0 THEN RAdd(RZero, Tenths(4)) ELSE RZero
      c2 == IF Len(r.founders) > 0
            THEN RAdd(c1, RMul(Rat(SumConfidence(r.founders), 10 * Len(r.founders)), Tenths(3)))
            ELSE c1
      f2 == IF Len(r.founders) > 0 THEN RAdd(f1, Tenths(3)) ELSE f1
      c3 == IF Len(r.sources) > 0
            THEN RAdd(c2, RMin(Tenths(Len(r.sources)), Tenths(3)))
            ELSE c2
      f3 == IF Len(r.sources) > 0 THEN RAdd(f2, Tenths(3)) ELSE f2
  IN IF f3.num > 0 THEN RDiv(c3, f3) ELSE RZero

-----------------------------------------------------------------------------
(* Bounds and inputs *)

MaxCalls == 2        \* enrichCompanyComplete calls in one behaviour
MaxBatch == 2        \* companies in one /enrich-batch request
MaxTicks == 1        \* idle periods of TickMs each

CacheTtlSeconds == 3600
DelayMs == 1000
TickMs == 3600000    \* one idle period lasts one cache TTL
LatencyMs == 7       \* time one enrichment takes up to its scoring

NamePan == <<"P", "a", "n", " ", "S", "o", "l">>
NameAbc == <<"A", "b", "c", " ", "S", ".", "C", ".">>
Phone55 == <<"5", "5", "1", "2">>
DefaultLocation == <<"M", "e'", "x", "i", "c", "o">>

\* A company record of a request body; an absent field is Undefined.
Company(company_name, empresa, phone, location, industry, sector) ==
  [isNull |-> FALSE, company_name |-> company_name, empresa |-> empresa,
   phone |-> phone, telefono |-> Undefined, location |-> location,
   ubicacion |-> Undefined, industry |-> industry, sector |-> sector]

\* A null element of the companies array.
NullItem ==
  [isNull |-> TRUE, company_name |-> Undefined, empresa |-> Undefined,
   phone |-> Undefined, telefono |-> Undefined, location |-> Undefined,
   ubicacion |-> Undefined, industry |-> Undefined, sector |-> Undefined]

Companies ==
  { Company(NamePan, Undefined, Phone55, Undefined, Undefined, Undefined),
    Company(Undefined, NamePan, Undefined, Undefined, Undefined, Undefined),
    Company(NameAbc, Undefined, Phone55, <<"P", "u", "e", "b", "l", "a">>, Undefined, <<"c", "o", "m", "e", "r", "c", "i", "o">>),
    Company(Undefined, Undefined, Phone55, Undefined, <<"s", "a", "l", "u", "d">>, Undefined),
    Company(Undefined, Undefined, Undefined, Undefined, Undefined, Undefined) }

BatchItems == Companies \cup {NullItem}

Batches == UNION {[1..n -> BatchItems] : n \in 0..MaxBatch}

\* The Math.random() draws of searchFounders, in hundredths.
FounderDraws == {10, 90}

\* The three Math.random() draws of one findSocialMedia call, in hundredths.
SocialDraws == {<<30, 30, 30>>, <<90, 30, 90>>}

-----------------------------------------------------------------------------
(* Values of the state *)

Absent == "#absent"
TypeErrorMessage == "Cannot read properties of undefined (reading 'toLowerCase')"
NullErrorMessage == "Cannot read properties of null (reading 'company_name')"

\* a || b
Or(a, b) == IF Truthy(a) THEN a ELSE b

\* The object literal enrichCompanyComplete starts from (the default
\* parameters applied), and the profile-shaped placeholder of the state.
NewResult(companyName, phone, location, industry, t) ==
  [company_name |-> companyName, phone |-> phone,
   location |-> IF location = Undefined THEN DefaultLocation ELSE location,
   industry |-> industry, emails |-> <<>>, founders |-> <<>>,
   website |-> Undefined, social_media |-> {}, lead_score |-> 0,
   confidence_score |-> RZero, sources |-> <<>>, processing_time_ms |-> 0,
   enriched_at |-> t, enrichment_error |-> Absent]

NoResult == NewResult(Undefined, Undefined, Undefined, Undefined, 0)

NoRequest == [kind |-> "none", companies |-> <<>>]

NoResponse ==
  [status |-> 0, success |-> FALSE, error |-> "", data |-> NoResult,
   processed |-> 0, successful |-> 0, failed |-> 0, results |-> <<>>,
   total_companies |-> 0, emails_found |-> 0, founders_found |-> 0, avg_score |-> 0]

NoSaved == [kind |-> "none", id |-> 0]

NoHist ==
  [hit |-> FALSE, cached |-> NoResult, raised |-> FALSE, cacheOutcome |-> "none"]

NoProbe == [fn |-> "none"]

\* The request handlers that run concurrently, and a handler's locals before
\* its request arrives: the request, enrichCompanyComplete's result and
\* startTime, and what its searchFounders and findSocialMedia drew.
Procs == {1, 2}

IdleHandler ==
  [pc |-> "idle", kind |-> "none", company |-> NullItem, result |-> NoResult,
   startTime |-> 0, founderDraw |-> 0, socialDraw |-> <<0, 0, 0>>]

NoHandlers == [p \in Procs |-> IdleHandler]

\* The arguments the handler passes to enrichCompanyComplete for company c.
ArgName(kind, c) == IF kind = "batch" THEN Or(c.company_name, c.empresa) ELSE c.company_name
ArgPhone(kind, c) == IF kind = "batch" THEN Or(c.phone, c.telefono) ELSE c.phone
ArgLocation(kind, c) ==
  IF kind = "batch" THEN Or(Or(c.location, c.ubicacion), DefaultLocation) ELSE c.location
ArgIndustry(kind, c) == IF kind = "batch" THEN Or(c.industry, c.sector) ELSE c.industry

\* `enrichment:${companyName}:${location}`
CacheKey(companyName, location) ==
  <<"e", "n", "r", "i", "c", "h", "m", "e", "n", "t", ":">> \o Interp(companyName) \o <<":">> \o Interp(location)

\* JSON.stringify of a result and JSON.parse of a cached value: the value is
\* kept as the text's content; null and undefined are one value here.
JSONStringify(r) == [json |-> r]
JSONParse(v) == v.json

\* The Redis store after time has reached t.
Expire(c, t) == {e \in c : e.expires > t}

-----------------------------------------------------------------------------
(* The leads table and saveLeadToDatabase *)

\* DECIMAL(3,2): a fraction rounded to hundredths.
RoundHundredths(x) == Rat((200 * x.num + x.den) \div (2 * x.den), 100)

QueryError(rows, seq) == [ok |-> FALSE, rows |-> rows, seq |-> seq, id |-> 0]

\* The row the INSERT of saveLeadToDatabase builds from its twelve values.
InsertedRow(id, v, t) ==
  [id |-> id, company_name |-> v.company_name, phone |-> v.phone,
   location |-> v.location, industry |-> v.industry, emails |-> v.emails,
   founders |-> v.founders, website |-> v.website, social_media |-> v.social_media,
   lead_score |-> v.lead_score, confidence_score |-> RoundHundredths(v.confidence_score),
   status |-> "new", sources |-> v.sources, updated_at |-> t]

\* ON CONFLICT (company_name, phone) DO UPDATE SET ...
UpdatedRow(row, v, t) ==
  [row EXCEPT !.emails = v.emails, !.founders = v.founders, !.website = v.website,
              !.social_media = v.social_media, !.lead_score = v.lead_score,
              !.confidence_score = RoundHundredths(v.confidence_score),
              !.sources = v.sources, !.updated_at = t]

\* UNIQUE(company_name, phone) of the README's table: NULLs never conflict.
Conflicts(row, v) ==
  /\ v.phone /= Undefined
  /\ row.company_name = v.company_name
  /\ row.phone = v.phone

\* The INSERT ... ON CONFLICT ... RETURNING id of saveLeadToDatabase against
\* the table as created.  The table of database/init has neither the column
\* sources nor a unique constraint on (company_name, phone), so the statement
\* is rejected; the README's table has both.
UpsertQuery(rows, seq, sch, v, t) ==
  IF sch = "init_sql" THEN QueryError(rows, seq)
  ELSE IF v.company_name = Undefined THEN QueryError(rows, seq + 1)
  ELSE IF ~(v.lead_score \in 0..100 /\ RLeq(v.confidence_score, Rat(1, 1)))
       THEN QueryError(rows, seq + 1)
  ELSE IF \E i \in 1..Len(rows) : Conflicts(rows[i], v)
       THEN LET i == CHOOSE j \in 1..Len(rows) : Conflicts(rows[j], v) IN
            [ok |-> TRUE, rows |-> [rows EXCEPT ![i] = UpdatedRow(rows[i], v, t)],
             seq |-> seq + 1, id |-> rows[i].id]
  ELSE [ok |-> TRUE, rows |-> Append(rows, InsertedRow(seq, v, t)),
        seq |-> seq + 1, id |-> seq]

\* saveLeadToDatabase with a catch block that rethrows.
SaveReturnRethrows(q) ==
  IF q.ok THEN [kind |-> "row", id |-> q.id] ELSE [kind |-> "throw", id |-> 0]

\* What saveLeadToDatabase returns for a query outcome: result.rows[0], or
\* null from its catch block.
SaveReturn(q) ==
  IF q.ok THEN [kind |-> "row", id |-> q.id] ELSE [kind |-> "null", id |-> 0]

\* saveLeadToDatabase: the query (rejected with a connection fault), then
\* the return value.
saveLeadToDatabase(rows, seq, sch, fault, enrichedData, t) ==
  LET q == IF fault THEN QueryError(rows, seq)
           ELSE UpsertQuery(rows, seq, sch, enrichedData, t)
  IN [ret |-> SaveReturn(q), rows |-> q.rows, seq |-> q.seq]

-----------------------------------------------------------------------------
(* Initial state *)

InitWith(schemas) ==
  /\ enableDbSave \in BOOLEAN
  /\ schema \in schemas
  /\ redisClient = IF enableDbSave THEN "closed" ELSE "null"
  /\ redisPc = IF enableDbSave THEN "connecting" ELSE "done"
  /\ cache = {}
  /\ leads = <<>>
  /\ nextId = 1
  /\ now = 0
  /\ pc = "idle"
  /\ req = NoRequest
  /\ idx = 0
  /\ result = NoResult
  /\ startTime = 0
  /\ enrichedCompanies = <<>>
  /\ saved = NoSaved
  /\ response = NoResponse
  /\ calls = 0
  /\ hist = NoHist
  /\ probe = NoProbe
  /\ handlers = NoHandlers

\* The server as deployed: database/init created the table.
Init == InitWith({"init_sql"})

\* The server on either table of the repository: CREATE TABLE IF NOT EXISTS
\* leaves in place whichever of database/init's and the README's was first.
InitStore == InitWith({"init_sql", "readme"}) /\ enableDbSave

-----------------------------------------------------------------------------
(* connectRedis and the clock *)

\* connect() settles while no enrichment is running.  The client is read
\* once per enrichment, when the write is issued, so settling during an
\* enrichment is settling just before it or just after it.

\* await redisClient.connect() resolves
RedisConnectOk ==
  /\ redisPc = "connecting"
  /\ pc \in {"idle", "delay"}
  /\ redisClient' = "open"
  /\ redisPc' = "done"
  /\ UNCHANGED <<enableDbSave, schema, cache, leads, nextId, now, pc, req, idx, result,
                 startTime, enrichedCompanies, saved, response, calls, hist, probe, handlers>>

\* await redisClient.connect() rejects: the catch block
RedisConnectFail ==
  /\ redisPc = "connecting"
  /\ pc \in {"idle", "delay"}
  /\ redisClient' = "null"
  /\ redisPc' = "done"
  /\ UNCHANGED <<enableDbSave, schema, cache, leads, nextId, now, pc, req, idx, result,
                 startTime, enrichedCompanies, saved, response, calls, hist, probe, handlers>>

\* The server is idle for TickMs.
Tick ==
  /\ pc = "idle"
  /\ now < MaxTicks * TickMs
  /\ now' = now + TickMs
  /\ cache' = Expire(cache, now')
  /\ UNCHANGED <<enableDbSave, schema, redisClient, redisPc, leads, nextId, pc, req, idx,
                 result, startTime, enrichedCompanies, saved, response, calls, hist, probe, handlers>>

-----------------------------------------------------------------------------
(* enrichCompanyComplete, one step per awaited call *)

Push(seq, x) == Append(seq, x)

Ok(r) == [threw |-> FALSE, r |-> r]
Threw(r) == [threw |-> TRUE, r |-> r]

\* The catch block without the assignment of enrichment_error.
EnrichCatchSilent(r, message, t, start) ==
  [r EXCEPT !.processing_time_ms = t - start]

\* The catch block of enrichCompanyComplete.
EnrichCatch(r, message, t, start) ==
  [r EXCEPT !.processing_time_ms = t - start, !.enrichment_error = message]

\* 1. performWebSearch, findOfficialWebsite
StepWeb(r) ==
  LET webResults == performWebSearch(r.company_name, r.location) IN
  IF Len(webResults) > 0
  THEN LET r1 == [r EXCEPT !.sources = Push(@, "web_search")]
           officialSite == findOfficialWebsite(webResults, r.company_name)
       IN IF officialSite = Throw THEN Threw(r1)
          ELSE IF Truthy(officialSite)
               THEN Ok([r1 EXCEPT !.website = officialSite,
                                  !.sources = Push(@, "official_website")])
               ELSE Ok(r1)
  ELSE Ok(r)

\* Step 2 listing email_generation whether or not an address was generated.
StepEmailsAlwaysListed(r) ==
  LET emails == findContactEmails(r.company_name, r.website)
      r1 == [r EXCEPT !.emails = emails]
  IN Ok([r1 EXCEPT !.sources = Push(@, "email_generation")])

\* 2. findContactEmails
StepEmails(r) ==
  LET emails == findContactEmails(r.company_name, r.website)
      r1 == [r EXCEPT !.emails = emails]
  IN IF Len(emails) > 0 THEN Ok([r1 EXCEPT !.sources = Push(@, "email_generation")])
     ELSE Ok(r1)

\* 3. searchFounders
StepFounders(r, d) ==
  LET founders == searchFounders(r.company_name, r.location, d)
      r1 == [r EXCEPT !.founders = founders]
  IN IF Len(founders) > 0 THEN Ok([r1 EXCEPT !.sources = Push(@, "founder_search")])
     ELSE Ok(r1)

\* 4. detectIndustry, when none was supplied
StepIndustry(r) ==
  IF ~Truthy(r.industry)
  THEN LET d == detectIndustry(r.company_name,
                               performWebSearch(r.company_name, r.location))
       IN IF d = Throw THEN Threw(r) ELSE Ok([r EXCEPT !.industry = d])
  ELSE Ok(r)

\* 5. findSocialMedia
StepSocial(r, r1, r2, r3) ==
  LET socialMedia == findSocialMedia(r.company_name, r1, r2, r3)
      q == [r EXCEPT !.social_media = socialMedia]
  IN IF Cardinality(socialMedia) > 0 THEN Ok([q EXCEPT !.sources = Push(@, "social_media")])
     ELSE Ok(q)

\* 6. the scores and the processing time
StepScore(r, t, start) ==
  LET r1 == [r EXCEPT !.lead_score = calculateLeadScore(r)]
      r2 == [r1 EXCEPT !.confidence_score = calculateConfidenceScore(r1)]
  IN Ok([r2 EXCEPT !.processing_time_ms = t - start])

\* The cache write without its own try/catch: a failed write reaches the
\* catch block of enrichCompanyComplete.
CacheWriteUncaught(r, fault, t, start) ==
  IF fault
  THEN [r EXCEPT !.processing_time_ms = t - start, !.enrichment_error = "cache write failed"]
  ELSE r

\* The try/catch around redisClient.setEx: a failed write is logged and the
\* result is left as it is.
CacheWriteCatch(r, fault, t, start) == r

\* The store after setEx(cacheKey, 3600, JSON.stringify(result)) at time t.
SetEx(c, key, seconds, value, t) ==
  {e \in c : e.key /= key}
    \cup {[key |-> key, value |-> value, expires |-> t + seconds * 1000]}

CacheLookup(c, key) == {e \in c : e.key = key}

EnrichStart ==
  /\ pc = "enrich_start"
  /\ LET c == req.companies[idx]
         r == NewResult(ArgName(req.kind, c), ArgPhone(req.kind, c),
                        ArgLocation(req.kind, c), ArgIndustry(req.kind, c), now)
         entries == CacheLookup(cache, CacheKey(r.company_name, r.location))
     IN /\ result' = r
        /\ hist' = [NoHist EXCEPT
                      !.hit = entries /= {},
                      !.cached = IF entries /= {}
                                 THEN JSONParse((CHOOSE e \in entries : TRUE).value)
                                 ELSE NoResult]
  /\ startTime' = now
  /\ saved' = NoSaved
  /\ calls' = calls + 1
  /\ pc' = "web"
  /\ UNCHANGED <<enableDbSave, schema, redisClient, redisPc, cache, leads, nextId, now,
                 req, idx, enrichedCompanies, response, probe, handlers>>

\* A step that ran to its end, or threw into the catch block (which takes
\* Date.now() after the time the enrichment took).
Continue(step, nextPc) ==
  IF step.threw
  THEN /\ now' = now + LatencyMs
       /\ cache' = Expire(cache, now')
       /\ result' = EnrichCatch(step.r, TypeErrorMessage, now', startTime)
       /\ hist' = [hist EXCEPT !.raised = TRUE]
       /\ pc' = "returned"
  ELSE /\ result' = step.r
       /\ pc' = nextPc
       /\ UNCHANGED <<now, cache, hist>>

WebSearch ==
  /\ pc = "web"
  /\ Continue(StepWeb(result), "emails")
  /\ UNCHANGED <<enableDbSave, schema, redisClient, redisPc, leads, nextId, req, idx,
                 startTime, enrichedCompanies, saved, response, calls, probe, handlers>>

ContactEmails ==
  /\ pc = "emails"
  /\ Continue(StepEmails(result), "founders")
  /\ UNCHANGED <<enableDbSave, schema, redisClient, redisPc, leads, nextId, req, idx,
                 startTime, enrichedCompanies, saved, response, calls, probe, handlers>>

SearchFounders ==
  /\ pc = "founders"
  /\ \E d \in FounderDraws : Continue(StepFounders(result, d), "industry")
  /\ UNCHANGED <<enableDbSave, schema, redisClient, redisPc, leads, nextId, req, idx,
                 startTime, enrichedCompanies, saved, response, calls, probe, handlers>>

DetectIndustry ==
  /\ pc = "industry"
  /\ Continue(StepIndustry(result), "social")
  /\ UNCHANGED <<enableDbSave, schema, redisClient, redisPc, leads, nextId, req, idx,
                 startTime, enrichedCompanies, saved, response, calls, probe, handlers>>

FindSocialMedia ==
  /\ pc = "social"
  /\ \E d \in SocialDraws : Continue(StepSocial(result, d[1], d[2], d[3]), "score")
  /\ UNCHANGED <<enableDbSave, schema, redisClient, redisPc, leads, nextId, req, idx,
                 startTime, enrichedCompanies, saved, response, calls, probe, handlers>>

\* Scoring, then the test of redisClient: the write is issued only on an
\* open client.
Score ==
  /\ pc = "score"
  /\ now' = now + LatencyMs
  /\ cache' = Expire(cache, now')
  /\ LET step == StepScore(result, now', startTime) IN
     IF step.threw
     THEN /\ result' = EnrichCatch(step.r, TypeErrorMessage, now', startTime)
          /\ hist' = [hist EXCEPT !.raised = TRUE]
          /\ pc' = "returned"
     ELSE /\ result' = step.r
          /\ IF redisClient = "open"
             THEN pc' = "cache" /\ hist' = hist
             ELSE /\ pc' = "returned"
                  /\ hist' = [hist EXCEPT !.cacheOutcome =
                                IF redisClient = "null" THEN "absent" ELSE "notopen"]
  /\ UNCHANGED <<enableDbSave, schema, redisClient, redisPc, leads, nextId, req, idx,
                 startTime, enrichedCompanies, saved, response, calls, probe, handlers>>

\* await redisClient.setEx(...) settles.
CacheWrite ==
  /\ pc = "cache"
  /\ \E fault \in BOOLEAN :
       /\ result' = CacheWriteCatch(result, fault, now, startTime)
       /\ cache' = IF fault THEN cache
                   ELSE SetEx(cache, CacheKey(result.company_name, result.location),
                              CacheTtlSeconds, JSONStringify(result), now)
       /\ hist' = [hist EXCEPT !.cacheOutcome = IF fault THEN "threw" ELSE "written"]
  /\ pc' = "returned"
  /\ UNCHANGED <<enableDbSave, schema, redisClient, redisPc, leads, nextId, now, req, idx,
                 startTime, enrichedCompanies, saved, response, calls, probe, handlers>>

-----------------------------------------------------------------------------
(* The request handlers *)

Response(status, success, error) ==
  [NoResponse EXCEPT !.status = status, !.success = success, !.error = error]

\* The entry the batch loop's catch block pushes:
\* {...company, enrichment_error, enriched: false, processing_time_ms: 0}
ErrorEntry(company, message) ==
  [company_name |-> company.company_name, empresa |-> company.empresa,
   phone |-> company.phone, telefono |-> company.telefono,
   location |-> company.location, ubicacion |-> company.ubicacion,
   industry |-> company.industry, sector |-> company.sector,
   enrichment_error |-> message, enriched |-> FALSE, processing_time_ms |-> 0]

\* !c.enrichment_error
NoEnrichmentError(c) == c.enrichment_error = Absent \/ c.enrichment_error = ""

RECURSIVE SumOver(_, _)
SumOver(entries, field) ==
  IF entries = <<>> THEN 0
  ELSE (IF field \in DOMAIN Head(entries)
        THEN (IF field = "lead_score" THEN Head(entries)[field] ELSE Len(Head(entries)[field]))
        ELSE 0)
       + SumOver(Tail(entries), field)

\* Math.round(sum / n); NaN (n = 0) is -1.
RoundedAverage(sum, n) == IF n = 0 THEN -1 ELSE (2 * sum + n) \div (2 * n)

\* The batch's res.json counting every entry as successful.
BatchResponseAllSuccessful(entries, companies) ==
  [NoResponse EXCEPT
     !.status = 200, !.success = TRUE,
     !.processed = Len(entries),
     !.successful = Len(entries),
     !.failed = 0,
     !.results = entries,
     !.total_companies = Len(companies),
     !.emails_found = SumOver(entries, "emails"),
     !.founders_found = SumOver(entries, "founders"),
     !.avg_score = RoundedAverage(SumOver(entries, "lead_score"), Len(entries))]

\* The body of the batch's res.json.
BatchResponse(entries, companies) ==
  LET successCount == Cardinality({i \in 1..Len(entries) : NoEnrichmentError(entries[i])})
  IN [NoResponse EXCEPT
        !.status = 200, !.success = TRUE,
        !.processed = Len(entries),
        !.successful = successCount,
        !.failed = Len(entries) - successCount,
        !.results = entries,
        !.total_companies = Len(companies),
        !.emails_found = SumOver(entries, "emails"),
        !.founders_found = SumOver(entries, "founders"),
        !.avg_score = RoundedAverage(SumOver(entries, "lead_score"), Len(entries))]

\* POST /enrich-single
PostEnrichSingle ==
  /\ pc = "idle"
  /\ \E body \in Companies :
       IF ~Truthy(body.company_name)
       THEN /\ response' = Response(400, FALSE, "company_name is required")
            /\ UNCHANGED <<pc, req, idx, enrichedCompanies>>
       ELSE /\ calls < MaxCalls
            /\ req' = [kind |-> "single", companies |-> <<body>>]
            /\ idx' = 1
            /\ enrichedCompanies' = <<>>
            /\ response' = NoResponse
            /\ pc' = "enrich_start"
  /\ UNCHANGED <<enableDbSave, schema, redisClient, redisPc, cache, leads, nextId, now,
                 result, startTime, saved, calls, hist, probe, handlers>>

\* POST /enrich-batch
PostEnrichBatch ==
  /\ pc = "idle"
  /\ \/ /\ response' = Response(400, FALSE, "Invalid input. Expected array of companies.")
        /\ UNCHANGED <<pc, req, idx, enrichedCompanies>>
     \/ \E companies \in Batches :
          /\ calls + Len(companies) <= MaxCalls
          /\ req' = [kind |-> "batch", companies |-> companies]
          /\ idx' = 1
          /\ enrichedCompanies' = <<>>
          /\ response' = NoResponse
          /\ pc' = "loop"
  /\ UNCHANGED <<enableDbSave, schema, redisClient, redisPc, cache, leads, nextId, now,
                 result, startTime, saved, calls, hist, probe, handlers>>

\* The handler has answered: its locals are gone.
Finished ==
  /\ pc' = "idle"
  /\ req' = NoRequest
  /\ idx' = 0
  /\ result' = NoResult
  /\ startTime' = 0
  /\ enrichedCompanies' = <<>>
  /\ saved' = NoSaved
  /\ hist' = NoHist

\* for (const company of companies): the next company, or the response.  A
\* null company throws in the loop's try and again in its catch block
\* (company.company_name), which the handler's outer catch answers with 500.
BatchLoop ==
  /\ pc = "loop"
  /\ IF idx > Len(req.companies)
     THEN /\ response' = BatchResponse(enrichedCompanies, req.companies)
          /\ Finished
     ELSE IF req.companies[idx].isNull
     THEN /\ response' = Response(500, FALSE, NullErrorMessage)
          /\ Finished
     ELSE /\ pc' = "enrich_start"
          /\ UNCHANGED <<response, req, idx, result, startTime, enrichedCompanies, saved, hist>>
  /\ UNCHANGED <<enableDbSave, schema, redisClient, redisPc, cache, leads, nextId, now,
                 calls, probe, handlers>>

\* The handler going on to the next company without awaiting delay(1000).
HandlerContinueNoDelay(ret) ==
  IF req.kind = "batch"
  THEN /\ enrichedCompanies' = Push(enrichedCompanies, result)
       /\ idx' = idx + 1
       /\ pc' = "loop"
       /\ UNCHANGED <<response, req, result, startTime>>
  ELSE /\ response' = [Response(200, TRUE, "") EXCEPT !.data = result]
       /\ pc' = "idle"
       /\ req' = NoRequest
       /\ idx' = 0
       /\ result' = NoResult
       /\ startTime' = 0
       /\ enrichedCompanies' = <<>>

\* The handler after enrichCompanyComplete and the optional save returned
\* `ret`: the batch pushes and starts its delay, the single answers.  A save
\* that threw would reach the handler's catch.
HandlerContinue(ret) ==
  IF req.kind = "batch"
  THEN IF ret.kind = "throw"
       THEN /\ enrichedCompanies' = Push(enrichedCompanies,
                                         ErrorEntry(req.companies[idx], "save failed"))
            /\ idx' = idx + 1
            /\ pc' = "loop"
            /\ UNCHANGED <<response, req, result, startTime>>
       ELSE /\ enrichedCompanies' = Push(enrichedCompanies, result)
            /\ pc' = "delay"
            /\ UNCHANGED <<idx, response, req, result, startTime>>
  ELSE /\ response' = IF ret.kind = "throw" THEN Response(500, FALSE, "save failed")
                      ELSE [Response(200, TRUE, "") EXCEPT !.data = result]
       /\ pc' = "idle"
       /\ req' = NoRequest
       /\ idx' = 0
       /\ result' = NoResult
       /\ startTime' = 0
       /\ enrichedCompanies' = <<>>

\* The handler issuing the save whatever ENABLE_DATABASE_SAVE says.
HandlerResumeAlwaysSaves ==
  /\ pc = "returned"
  /\ pc' = "save"
  /\ UNCHANGED <<idx, enrichedCompanies, response, req, result, startTime, saved, hist>>
  /\ UNCHANGED <<enableDbSave, schema, redisClient, redisPc, cache, leads, nextId, now,
                 calls, probe, handlers>>

\* enrichCompanyComplete returned to the handler: the save is issued when
\* ENABLE_DATABASE_SAVE is 'true'.
HandlerResume ==
  /\ pc = "returned"
  /\ IF enableDbSave
     THEN /\ pc' = "save"
          /\ UNCHANGED <<idx, enrichedCompanies, response, req, result, startTime, saved, hist>>
     ELSE /\ HandlerContinue(NoSaved)
          /\ saved' = NoSaved
          /\ hist' = IF req.kind = "batch" THEN hist ELSE NoHist
  /\ UNCHANGED <<enableDbSave, schema, redisClient, redisPc, cache, leads, nextId, now,
                 calls, probe, handlers>>

\* await saveLeadToDatabase(enriched) settles.
SaveLead ==
  /\ pc = "save"
  /\ \E fault \in BOOLEAN :
       LET s == saveLeadToDatabase(leads, nextId, schema, fault, result, now) IN
       /\ leads' = s.rows
       /\ nextId' = s.seq
       /\ saved' = IF req.kind = "batch" THEN s.ret ELSE NoSaved
       /\ hist' = IF req.kind = "batch" THEN hist ELSE NoHist
       /\ HandlerContinue(s.ret)
  /\ UNCHANGED <<enableDbSave, schema, redisClient, redisPc, cache, now, calls, probe, handlers>>

\* await delay(1000) settles.
DelayDone ==
  /\ pc = "delay"
  /\ now' = now + DelayMs
  /\ cache' = Expire(cache, now')
  /\ idx' = idx + 1
  /\ pc' = "loop"
  /\ UNCHANGED <<enableDbSave, schema, redisClient, redisPc, leads, nextId, req, result,
                 startTime, enrichedCompanies, saved, response, calls, hist, probe, handlers>>

Next ==
  \/ RedisConnectOk
  \/ RedisConnectFail
  \/ Tick
  \/ PostEnrichSingle
  \/ PostEnrichBatch
  \/ BatchLoop
  \/ EnrichStart
  \/ WebSearch
  \/ ContactEmails
  \/ SearchFounders
  \/ DetectIndustry
  \/ FindSocialMedia
  \/ Score
  \/ CacheWrite
  \/ HandlerResume
  \/ SaveLead
  \/ DelayDone

Spec == Init /\ [][Next]_vars

SpecStore == InitStore /\ [][Next]_vars

-----------------------------------------------------------------------------
(* Two requests handled concurrently *)

\* All handlers writing to one result object, as a module-level variable
\* would have it.
SharedResultSlot(p) == 1

\* Every call of enrichCompanyComplete builds its own result object, which
\* only that call's continuation holds: handler p works on the result of
\* handlers[p].
ResultSlot(p) == p

\* The requests of the concurrent handlers: /enrich-single of a named
\* company, and /enrich-batch of one company that is named by company_name,
\* named by empresa without a phone, or nameless.
ConcRequests ==
  { [kind |-> "single",
     company |-> Company(NamePan, Undefined, Phone55, Undefined, Undefined, Undefined)],
    [kind |-> "batch",
     company |-> Company(NamePan, Undefined, Phone55, Undefined, Undefined, Undefined)],
    [kind |-> "batch",
     company |-> Company(Undefined, NamePan, Undefined, Undefined, Undefined, Undefined)],
    [kind |-> "batch",
     company |-> Company(Undefined, Undefined, Undefined, Undefined, Undefined, Undefined)] }

HandlerResult(p) == handlers[ResultSlot(p)].result

\* Handler p moves to newPc with r as its call's result.
Resumed(p, newPc, r) ==
  [handlers EXCEPT ![p].pc = newPc, ![ResultSlot(p)].result = r]

\* The try/catch of enrichCompanyComplete around a step of handler p.
ConcContinue(p, step, nextPc, t) ==
  IF step.threw
  THEN Resumed(p, "returned", EnrichCatch(step.r, TypeErrorMessage, t, handlers[p].startTime))
  ELSE Resumed(p, nextPc, step.r)

concShared == <<enableDbSave, schema, redisClient, redisPc, pc, req, idx, result, startTime,
                enrichedCompanies, saved, response, calls, hist, probe>>

\* A request arrives: the handler calls enrichCompanyComplete, which builds
\* its result and awaits performWebSearch.
ConcRequest(p) ==
  /\ handlers[p].pc = "idle"
  /\ redisPc = "done"
  /\ \E q \in ConcRequests :
       handlers' =
         [Resumed(p, "web",
                  NewResult(ArgName(q.kind, q.company), ArgPhone(q.kind, q.company),
                            ArgLocation(q.kind, q.company), ArgIndustry(q.kind, q.company),
                            now))
            EXCEPT ![p].kind = q.kind, ![p].company = q.company, ![p].startTime = now]
  /\ UNCHANGED <<concShared, cache, leads, nextId, now>>

\* await performWebSearch settles; the website is chosen and
\* findContactEmails awaited.
ConcWebSearch(p) ==
  /\ handlers[p].pc = "web"
  /\ handlers' = ConcContinue(p, StepWeb(HandlerResult(p)), "emails", now)
  /\ UNCHANGED <<concShared, cache, leads, nextId, now>>

\* await findContactEmails settles; searchFounders is awaited.
ConcContactEmails(p) ==
  /\ handlers[p].pc = "emails"
  /\ handlers' = ConcContinue(p, StepEmails(HandlerResult(p)), "founders", now)
  /\ UNCHANGED <<concShared, cache, leads, nextId, now>>

\* await searchFounders settles; detectIndustry runs in the same turn and
\* findSocialMedia is awaited.
ConcSearchFounders(p) ==
  /\ handlers[p].pc = "founders"
  /\ \E d \in FounderDraws :
       LET f == StepFounders(HandlerResult(p), d)
           i == IF f.threw THEN f ELSE StepIndustry(f.r)
       IN handlers' = [ConcContinue(p, i, "social", now) EXCEPT ![p].founderDraw = d]
  /\ UNCHANGED <<concShared, cache, leads, nextId, now>>

\* await findSocialMedia settles; the scores are computed in the same turn,
\* and the cache write is awaited when the client is open.
ConcFindSocialMedia(p) ==
  /\ handlers[p].pc = "social"
  /\ now' = now + LatencyMs
  /\ cache' = Expire(cache, now')
  /\ \E d \in SocialDraws :
       LET m == StepSocial(HandlerResult(p), d[1], d[2], d[3])
           c == IF m.threw THEN m ELSE StepScore(m.r, now', handlers[p].startTime)
       IN handlers' =
            [ConcContinue(p, c, IF redisClient = "open" THEN "cache" ELSE "returned", now')
               EXCEPT ![p].socialDraw = d]
  /\ UNCHANGED <<concShared, leads, nextId>>

\* await redisClient.setEx settles.
ConcCacheWrite(p) ==
  /\ handlers[p].pc = "cache"
  /\ \E fault \in BOOLEAN :
       /\ handlers' = Resumed(p, "returned",
                              CacheWriteCatch(HandlerResult(p), fault, now,
                                              handlers[p].startTime))
       /\ cache' = IF fault THEN cache
                   ELSE SetEx(cache,
                              CacheKey(HandlerResult(p).company_name,
                                       HandlerResult(p).location),
                              CacheTtlSeconds, JSONStringify(HandlerResult(p)), now)
  /\ UNCHANGED <<concShared, leads, nextId, now>>

\* enrichCompanyComplete returned to handler p.
ConcHandlerResume(p) ==
  /\ handlers[p].pc = "returned"
  /\ handlers' = [handlers EXCEPT ![p].pc =
                    IF enableDbSave THEN "save"
                    ELSE IF handlers[p].kind = "batch" THEN "delay" ELSE "done"]
  /\ UNCHANGED <<concShared, cache, leads, nextId, now>>

\* await saveLeadToDatabase settles.
ConcSaveLead(p) ==
  /\ handlers[p].pc = "save"
  /\ \E fault \in BOOLEAN :
       LET s == saveLeadToDatabase(leads, nextId, schema, fault, HandlerResult(p), now) IN
       /\ leads' = s.rows
       /\ nextId' = s.seq
  /\ handlers' = [handlers EXCEPT ![p].pc =
                    IF handlers[p].kind = "batch" THEN "delay" ELSE "done"]
  /\ UNCHANGED <<concShared, cache, now>>

\* await delay(1000) settles and the batch of one answers.
ConcDelayDone(p) ==
  /\ handlers[p].pc = "delay"
  /\ now' = now + DelayMs
  /\ cache' = Expire(cache, now')
  /\ handlers' = [handlers EXCEPT ![p].pc = "done"]
  /\ UNCHANGED <<concShared, leads, nextId>>

ConcRedisConnectOk ==
  /\ \A p \in Procs : handlers[p].pc = "idle"
  /\ RedisConnectOk

ConcRedisConnectFail ==
  /\ \A p \in Procs : handlers[p].pc = "idle"
  /\ RedisConnectFail

NextConc ==
  \/ ConcRedisConnectOk
  \/ ConcRedisConnectFail
  \/ \E p \in Procs : ConcRequest(p)
  \/ \E p \in Procs : ConcWebSearch(p)
  \/ \E p \in Procs : ConcContactEmails(p)
  \/ \E p \in Procs : ConcSearchFounders(p)
  \/ \E p \in Procs : ConcFindSocialMedia(p)
  \/ \E p \in Procs : ConcCacheWrite(p)
  \/ \E p \in Procs : ConcHandlerResume(p)
  \/ \E p \in Procs : ConcSaveLead(p)
  \/ \E p \in Procs : ConcDelayDone(p)

SpecConc == Init /\ [][NextConc]_vars

\* enrichCompanyComplete as a function of its arguments, of what its
\* searchFounders (d) and findSocialMedia (s) drew, and of the clock at its
\* start (t0) and at its end (t1).
enrichCompanyComplete(companyName, phone, location, industry, d, s, t0, t1) ==
  LET r0 == NewResult(companyName, phone, location, industry, t0)
      w == StepWeb(r0)
      e == IF w.threw THEN w ELSE StepEmails(w.r)
      f == IF e.threw THEN e ELSE StepFounders(e.r, d)
      i == IF f.threw THEN f ELSE StepIndustry(f.r)
      m == IF i.threw THEN i ELSE StepSocial(i.r, s[1], s[2], s[3])
      c == IF m.threw THEN m ELSE StepScore(m.r, t1, t0)
  IN IF c.threw THEN EnrichCatch(c.r, TypeErrorMessage, t1, t0) ELSE c.r

-----------------------------------------------------------------------------
(* The pure functions applied to arbitrary arguments *)

MaxProbeEmails == 5     \* emails of a profile handed to calculateLeadScore
MaxProbeFounders == 2   \* founders of a profile handed to a scoring function
MaxProbeSources == 5    \* sources of a profile handed to a scoring function
MaxProbeRated == 2      \* emails of a profile handed to calculateConfidenceScore

ProbeConfidences == {0, 5, 10}

ProbeEmail(c) ==
  [email |-> <<"i", "n", "f", "o", "@", "x", ".", "m", "x">>, confidence |-> c, source |-> "pattern_generation",
   validated |-> FALSE, priority |-> 2]

ProbeFounder(c) ==
  [name |-> "Ana Lopez", position |-> "Propietaria", confidence |-> c,
   source |-> "web_search", found_via |-> <<"x">>, verified |-> FALSE]

ProbeSocial == [platform |-> "facebook", url |-> <<"h", "t", "t", "p", "s", ":", "/", "/", "f", "a", "c", "e", "b", "o", "o", "k", ".", "c", "o", "m", "/", "x">>]

ProbeProfile(emails, founders, website, industry, social, nSources) ==
  [NoResult EXCEPT !.emails = emails, !.founders = founders, !.website = website,
                   !.industry = industry, !.social_media = social,
                   !.sources = [i \in 1..nSources |-> "web_search"]]

SeqsUpTo(S, n) == UNION {[1..k -> S] : k \in 0..n}

\* Profiles for calculateLeadScore: only the sizes and the presence matter.
LeadProfiles ==
  { ProbeProfile([i \in 1..ne |-> ProbeEmail(5)], [i \in 1..nf |-> ProbeFounder(5)],
                 w, ind, soc, ns) :
      ne \in 0..MaxProbeEmails, nf \in 0..MaxProbeFounders,
      w \in {Undefined, <<"h", "t", "t", "p", "s", ":", "/", "/", "x", ".", "m", "x">>},
      ind \in {Undefined, <<>>, <<"g", "e", "n", "e", "r", "a", "l">>, <<"s", "a", "l", "u", "d">>},
      soc \in {{}, {ProbeSocial}}, ns \in 0..MaxProbeSources }

\* Profiles for calculateConfidenceScore: every confidence in [0,1].
RatedProfiles ==
  { ProbeProfile([i \in 1..Len(es) |-> ProbeEmail(es[i])],
                 [i \in 1..Len(fs) |-> ProbeFounder(fs[i])],
                 Undefined, Undefined, {}, ns) :
      es \in SeqsUpTo(ProbeConfidences, MaxProbeRated),
      fs \in SeqsUpTo(ProbeConfidences, MaxProbeFounders),
      ns \in 0..MaxProbeSources }

ProbeNames == {NamePan, NameAbc, <<>>, <<"T", "a", "c", "o", "s", " ", "E", "l", " ", "R", "e", "y">>, Undefined}

ProbeWebsites ==
  {Undefined, <<>>, <<"h", "t", "t", "p", "s", ":", "/", "/", "p", "a", "n", "s", "o", "l", ".", "c", "o", "m", ".", "m", "x">>, <<"h", "t", "t", "p", ":", "/", "/", "T", "a", "c", "o", "s", ".", "M", "X", "/", "c", "o", "n", "t", "a", "c", "t", "o">>,
   <<"p", "a", "n", "s", "o", "l">>, <<"h", "t", "t", "p", "s", ":", "/", "/">>}

Signals == {"email", "founder", "website", "industry", "social", "source"}

\* The profile with one more signal.
AddSignal(p, signal) ==
  CASE signal = "email" -> [p EXCEPT !.emails = Append(@, ProbeEmail(5))]
    [] signal = "founder" -> [p EXCEPT !.founders = Append(@, ProbeFounder(5))]
    [] signal = "website" -> [p EXCEPT !.website = <<"h", "t", "t", "p", "s", ":", "/", "/", "x", ".", "m", "x">>]
    [] signal = "industry" -> [p EXCEPT !.industry = <<"s", "a", "l", "u", "d">>]
    [] signal = "social" ->
         [p EXCEPT !.social_media =
            @ \cup {[platform |-> "instagram", url |-> <<"h", "t", "t", "p", "s", ":", "/", "/", "i", "n", "s", "t", "a", "g", "r", "a", "m", ".", "c", "o", "m", "/", "x">>]}]
    [] signal = "source" -> [p EXCEPT !.sources = Append(@, "social_media")]

\* Whether the signal is missing from the profile (or can be repeated).
CanAdd(p, signal) ==
  CASE signal = "website" -> ~Truthy(p.website)
    [] signal = "industry" -> ~Truthy(p.industry) \/ p.industry = <<"g", "e", "n", "e", "r", "a", "l">>
    [] OTHER -> TRUE

serverVars == <<enableDbSave, schema, redisClient, redisPc, cache, leads, nextId, now,
                pc, req, idx, result, startTime, enrichedCompanies, saved, response,
                calls, hist, handlers>>

ProbeLeadScore ==
  /\ probe.fn = "none"
  /\ \E p \in LeadProfiles :
       probe' = [fn |-> "calculateLeadScore", in |-> p, out |-> calculateLeadScore(p)]
  /\ UNCHANGED serverVars

ProbeAddSignal ==
  /\ probe.fn = "calculateLeadScore"
  /\ \E signal \in Signals :
       /\ CanAdd(probe.in, signal)
       /\ probe' = [fn |-> "addSignal", before |-> probe.in, prev |-> probe.out,
                    signal |-> signal, in |-> AddSignal(probe.in, signal),
                    out |-> calculateLeadScore(AddSignal(probe.in, signal))]
  /\ UNCHANGED serverVars

ProbeConfidenceScore ==
  /\ probe.fn = "none"
  /\ \E p \in RatedProfiles :
       probe' = [fn |-> "calculateConfidenceScore", in |-> p,
                 out |-> calculateConfidenceScore(p)]
  /\ UNCHANGED serverVars

ProbeContactEmails ==
  /\ probe.fn = "none"
  /\ \E n \in ProbeNames, w \in ProbeWebsites :
       probe' = [fn |-> "findContactEmails", name |-> n, website |-> w,
                 out |-> findContactEmails(n, w)]
  /\ UNCHANGED serverVars

\* Company names with a legal-entity suffix appended, and what stands in for
\* a missing or unparseable website.
ProbeBaseNames == {NamePan, <<"A", "b", "c">>, <<"T", "a", "c", "o", "s", " ", "E", "l", " ", "R", "e", "y">>}
LegalSuffixes ==
  {<<"S", ".", "A", ".", " ", "d", "e", " ", "C", ".", "V", ".">>, <<"S", ".", "C", ".">>, <<"S", ".", " ", "d", "e", " ", "R", ".", "L", ".", " ", "d", "e", " ", "C", ".", "V", ".">>, <<"s", ".", "a", ".", " ", "d", "e", " ", "c", ".", "v", ".">>, <<"S", "A", " ", "d", "e", " ", "C", "V">>}
NoWebsites == {Undefined, <<>>, <<"p", "a", "n", "s", "o", "l">>}

ProbeGuessDomain ==
  /\ probe.fn = "none"
  /\ \E n \in ProbeBaseNames, suffix \in LegalSuffixes, w \in NoWebsites :
       probe' = [fn |-> "guessDomain", name |-> n, suffix |-> suffix, website |-> w,
                 out |-> guessDomain(n \o <<" ">> \o suffix, w),
                 bare |-> guessDomain(n, w)]
  /\ UNCHANGED serverVars

\* Arguments of detectIndustry: names and snippets with keywords of none,
\* one or several industries.
IndustryNames ==
  {NamePan, NameAbc, <<"T", "a", "c", "o", "s", " ", "y", " ", "P", "a", "n">>, <<"T", "i", "e", "n", "d", "a", " ", "W", "e", "b">>, <<"C", "l", "i'", "n", "i", "c", "a", " ", "D", "e", "n", "t", "a", "l">>, <<"E", "s", "c", "u", "e", "l", "a">>, <<>>}

ProbeSnippets(name) ==
  {<<>>,
   performWebSearch(name, DefaultLocation),
   <<[title |-> <<"C", "u", "r", "s", "o", "s">>, url |-> <<"h", "t", "t", "p", "s", ":", "/", "/", "x", ".", "m", "x">>, snippet |-> <<"V", "e", "n", "t", "a", " ", "d", "e", " ", "c", "u", "r", "s", "o", "s">>]>>,
   <<[title |-> <<"a">>, url |-> <<"h", "t", "t", "p", "s", ":", "/", "/", "x", ".", "m", "x">>, snippet |-> <<"A", "c", "a", "d", "e", "m", "i", "a">>],
     [title |-> <<"b">>, url |-> <<"h", "t", "t", "p", "s", ":", "/", "/", "y", ".", "m", "x">>, snippet |-> <<"F", "a", "r", "m", "a", "c", "i", "a">>]>>}

SuppliedIndustries == {Undefined, <<>>, <<"s", "a", "l", "u", "d">>, <<"g", "e", "n", "e", "r", "a", "l">>, <<"m", "i", "n", "e", "r", "i'", "a">>}

ProbeDetectIndustry ==
  /\ probe.fn = "none"
  /\ \E n \in IndustryNames :
       \E w \in ProbeSnippets(n) :
          probe' = [fn |-> "detectIndustry", name |-> n, webResults |-> w,
                    out |-> detectIndustry(n, w)]
  /\ UNCHANGED serverVars

\* Step 4 of enrichCompanyComplete on a result with or without an industry.
ProbeIndustryStep ==
  /\ probe.fn = "none"
  /\ \E n \in IndustryNames, ind \in SuppliedIndustries :
       LET r == NewResult(n, Undefined, DefaultLocation, ind, 0) IN
       probe' = [fn |-> "industryStep", in |-> r, out |-> StepIndustry(r)]
  /\ UNCHANGED serverVars

InitProbe == Init /\ ~enableDbSave

NextProbe ==
  \/ ProbeLeadScore
  \/ ProbeAddSignal
  \/ ProbeConfidenceScore
  \/ ProbeContactEmails
  \/ ProbeGuessDomain
  \/ ProbeDetectIndustry
  \/ ProbeIndustryStep

SpecProbe == InitProbe /\ [][NextProbe]_vars

-----------------------------------------------------------------------------
(* Properties *)

IsSequence(x) == DOMAIN x = 1..Len(x)

ProfileFields ==
  {"company_name", "phone", "location", "industry", "emails", "founders", "website",
   "social_media", "lead_score", "confidence_score", "sources", "processing_time_ms",
   "enriched_at", "enrichment_error"}

\* C1: an enrichment that starts with an unexpired cache entry under its
\* (companyName, location) key returns that entry's profile verbatim.
C1_CacheHitVerbatim ==
  (pc = "returned" /\ hist.hit) => result = hist.cached

\* The nameless entries of a batch response.
Nameless(entries) == {i \in 1..Len(entries) : entries[i].company_name = Undefined}

\* C2: in a batch response every nameless record is an error entry counted
\* in failed, and the named records are the successful ones.
C2_NamelessIsError ==
  (response.status = 200 /\ response.success) =>
     /\ \A i \in Nameless(response.results) : ~NoEnrichmentError(response.results[i])
     /\ response.failed >= Cardinality(Nameless(response.results))
     /\ response.successful <= Len(response.results) - Cardinality(Nameless(response.results))

ClaimedLeadScore(p) ==
  Min(100,
      20 + (IF Len(p.emails) > 0 THEN 20 + Min(3 * Len(p.emails), 10) ELSE 0)
         + (IF Len(p.founders) > 0 THEN 25 ELSE 0)
         + (IF Truthy(p.website) THEN 15 ELSE 0)
         + (IF Truthy(p.industry) /\ p.industry /= <<"g", "e", "n", "e", "r", "a", "l">> THEN 10 ELSE 0)
         + (IF p.social_media /= {} THEN 5 ELSE 0)
         + (IF Len(p.sources) > 2 THEN 5 ELSE 0))

\* C4: calculateLeadScore is the clamped sum of the base and the six bonuses.
C4_LeadScoreFormula ==
  probe.fn \in {"calculateLeadScore", "addSignal"} => probe.out = ClaimedLeadScore(probe.in)

\* A profile whose bonuses sum to 110, clamped to 100.
C4_Witness ==
  /\ probe.fn = "calculateLeadScore"
  /\ Len(probe.in.emails) = 4 /\ Len(probe.in.founders) = 1 /\ Truthy(probe.in.website)
  /\ probe.in.industry = <<"s", "a", "l", "u", "d">> /\ probe.in.social_media /= {}
  /\ Len(probe.in.sources) = 3
  /\ probe.out = 100

\* C5: one more signal never lowers the lead score, which is an integer of
\* 0..100.
C5_LeadScoreMonotonic ==
  /\ probe.fn \in {"calculateLeadScore", "addSignal"} => probe.out \in 0..100
  /\ probe.fn = "addSignal" => probe.out >= probe.prev

C5_Witness ==
  /\ probe.fn = "addSignal" /\ probe.signal = "source"
  /\ Len(probe.before.sources) = 2
  /\ probe.out = probe.prev + 5

\* The confidence of the claim: contributions over weights, in integers.
\* The numerator and the denominator are both scaled by 100 * nE * nF.
ClaimedConfidence(p) ==
  LET e == Len(p.emails) > 0
      f == Len(p.founders) > 0
      s == Len(p.sources) > 0
      nE == IF e THEN Len(p.emails) ELSE 1
      nF == IF f THEN Len(p.founders) ELSE 1
  IN [num |-> (IF e THEN 4 * SumConfidence(p.emails) * nF ELSE 0)
              + (IF f THEN 3 * SumConfidence(p.founders) * nE ELSE 0)
              + (IF s THEN 10 * Min(Len(p.sources), 3) * nE * nF ELSE 0),
      den |-> 10 * ((IF e THEN 4 ELSE 0) + (IF f THEN 3 ELSE 0) + (IF s THEN 3 ELSE 0))
              * nE * nF]

\* C6: calculateConfidenceScore is 0 on a profile without emails, founders
\* and sources, and otherwise the contributions of the present categories
\* over their weights, a value of [0,1].
C6_ConfidenceScore ==
  probe.fn = "calculateConfidenceScore" =>
     LET p == probe.in
         c == ClaimedConfidence(p)
     IN /\ (Len(p.emails) = 0 /\ Len(p.founders) = 0 /\ Len(p.sources) = 0)
             => probe.out = RZero
        /\ probe.out.num >= 0 /\ probe.out.den > 0 /\ probe.out.num <= probe.out.den
        /\ c.den > 0 => probe.out.num * c.den = c.num * probe.out.den

C6_Witness ==
  /\ probe.fn = "calculateConfidenceScore"
  /\ Len(probe.in.emails) = 2 /\ Len(probe.in.founders) = 2 /\ Len(probe.in.sources) = 5
  /\ SumConfidence(probe.in.emails) = 20 /\ SumConfidence(probe.in.founders) = 20
  /\ probe.out = Rat(1, 1)

\* The rank of an address's local part in the list of local parts.
LocalPart(email) ==
  SubSeq(email, 1, (CHOOSE i \in 1..Len(email) : email[i] = AtSign) - 1)
Rank(email) == CHOOSE i \in 1..Len(EmailLocalParts) : EmailLocalParts[i] = LocalPart(email)

\* C7: findContactEmails returns at most 5 candidates, in ascending rank of
\* the local part and, within one rank, descending confidence.
C7_EmailsSorted ==
  probe.fn = "findContactEmails" =>
     /\ Len(probe.out) <= 5
     /\ \A i \in 1..Len(probe.out) : probe.out[i].priority = Rank(probe.out[i].email)
     /\ \A i, j \in 1..Len(probe.out) :
          i < j => \/ probe.out[i].priority < probe.out[j].priority
                   \/ /\ probe.out[i].priority = probe.out[j].priority
                      /\ probe.out[i].confidence >= probe.out[j].confidence

C7_Witness ==
  /\ probe.fn = "findContactEmails" /\ probe.name = NameAbc
  /\ probe.website = <<"h", "t", "t", "p", ":", "/", "/", "T", "a", "c", "o", "s", ".", "M", "X", "/", "c", "o", "n", "t", "a", "c", "t", "o">>
  /\ Len(probe.out) = 5
  /\ probe.out[1].confidence > probe.out[3].confidence

\* C8: the table holds at most one row for a (company_name, phone).
C8_OneRowPerKey ==
  \A i, j \in 1..Len(leads) :
     (leads[i].company_name = leads[j].company_name /\ leads[i].phone = leads[j].phone)
       => i = j

\* C9: saveLeadToDatabase never throws; after it the batch appends the
\* enrichment's own result and goes on to its delay and the next company,
\* the single answers with that result, and a batch answers for all its
\* companies.
C9_SaveFaultSwallowed ==
  [][ /\ pc = "save" =>
           /\ saved'.kind /= "throw"
           /\ req.kind = "batch" =>
                /\ enrichedCompanies' = Append(enrichedCompanies, result)
                /\ pc' = "delay" /\ idx' = idx
           /\ req.kind = "single" =>
                /\ response'.status = 200 /\ response'.success
                /\ response'.data = result
      /\ (pc = "delay" /\ pc' = "loop") => idx' = idx + 1
      /\ (pc = "loop" /\ pc' = "idle" /\ response'.status = 200) =>
           /\ response'.processed = Len(req.companies)
           /\ response'.results = enrichedCompanies
           /\ response'.successful =
                Cardinality({i \in 1..Len(enrichedCompanies) :
                               enrichedCompanies[i].enrichment_error = Absent})
    ]_vars

\* The second company of a batch has been enriched and appended after the
\* saves of both companies failed.
C9_Witness ==
  /\ pc = "delay" /\ idx = 2 /\ saved.kind = "null"
  /\ enrichedCompanies[2] = result
  /\ enrichedCompanies[1].enrichment_error = Absent

\* C10: whatever the cache does, an enrichment in which no step raised
\* returns the scored profile without enrichment_error; a write that
\* succeeded left the profile under the call's key for 3600 seconds.
C10_CacheBestEffort ==
  (pc = "returned" /\ ~hist.raised) =>
     /\ hist.cacheOutcome \in {"absent", "notopen", "threw", "written"}
     /\ result.enrichment_error = Absent
     /\ result.lead_score = calculateLeadScore(result)
     /\ result.confidence_score = calculateConfidenceScore(result)
     /\ result.processing_time_ms = now - startTime
     /\ hist.cacheOutcome = "written" <=>
          \E e \in cache :
             /\ e.key = <<"e", "n", "r", "i", "c", "h", "m", "e", "n", "t", ":">> \o Interp(result.company_name) \o <<":">>
                        \o Interp(result.location)
             /\ e.value = JSONStringify(result)
             /\ e.expires = now + 3600000

\* The write threw and the profile came back whole.
C10_Witness ==
  /\ pc = "returned" /\ hist.cacheOutcome = "threw"
  /\ result.lead_score = 100

\* The positions of a handler inside one company's iteration, from the call
\* of enrichCompanyComplete to the save.
IterationPcs ==
  {"enrich_start", "web", "emails", "founders", "industry", "social", "score", "cache",
   "returned", "save"}

\* When the enrichment of an entry of results ended: enriched_at is its
\* start, processing_time_ms its duration.
EndOf(entry) == entry.enriched_at + entry.processing_time_ms

\* C11: while company idx of a batch is being enriched or saved, the results
\* hold exactly the companies before it, in input order, and the previous
\* company's enrichment ended at least 1000 ms before this one began; when
\* the delay of a company starts its save has been attempted (if enabled) and
\* its result appended; the loop is re-entered only 1000 ms after the last
\* enrichment ended.
C11_SequentialBatch ==
  req.kind = "batch" =>
     /\ pc \in IterationPcs =>
          /\ Len(enrichedCompanies) = idx - 1
          /\ \A i \in 1..Len(enrichedCompanies) :
               enrichedCompanies[i].company_name = ArgName("batch", req.companies[i])
          /\ idx > 1 =>
               (IF pc = "enrich_start" THEN now ELSE startTime)
                 >= EndOf(enrichedCompanies[idx - 1]) + 1000
     /\ pc = "delay" =>
          /\ Len(enrichedCompanies) = idx
          /\ enrichedCompanies[idx] = result
          /\ enableDbSave => saved.kind \in {"row", "null"}
          /\ now >= EndOf(result)
     /\ (pc = "loop" /\ idx > 1) =>
          /\ Len(enrichedCompanies) = idx - 1
          /\ now >= EndOf(enrichedCompanies[idx - 1]) + 1000

\* The second company of a batch is being enriched after the first was
\* enriched, saved and waited for.
C11_Witness ==
  /\ req.kind = "batch" /\ pc = "founders" /\ idx = 2 /\ enableDbSave
  /\ Len(enrichedCompanies) = 1
  /\ startTime >= EndOf(enrichedCompanies[1]) + 1000

\* C12: with ENABLE_DATABASE_SAVE off no step reaches the cache write or the
\* save, and the cache and the table stay as they were; with it on, every
\* return of enrichCompanyComplete is followed by the save, the save is
\* entered from nowhere else, and it is attempted once before the handler
\* goes on.
C12_ToggleGatesSideEffects ==
  [][ /\ ~enableDbSave =>
           /\ pc' \notin {"cache", "save"}
           /\ cache' = cache /\ leads' = leads /\ nextId' = nextId
           /\ redisClient' = "null"
           /\ saved'.kind = "none"
           /\ hist'.cacheOutcome \in {"none", "absent"}
      /\ enableDbSave =>
           /\ pc = "returned" => pc' = "save"
           /\ pc' = "save" => pc = "returned"
           /\ pc = "save" =>
                /\ pc' \in {"delay", "idle"}
                /\ req.kind = "batch" => saved'.kind \in {"row", "null"}
                /\ Len(leads') <= Len(leads) + 1
           /\ pc /= "save" => leads' = leads
    ]_vars

\* Two companies of a batch were enriched in memory-only mode.
C12_Witness ==
  /\ ~enableDbSave /\ req.kind = "batch" /\ pc = "delay" /\ idx = 2
  /\ Len(enrichedCompanies) = 2
  /\ cache = {} /\ leads = <<>> /\ saved.kind = "none"

\* C13: without a usable website, a name with a legal-entity suffix gets the
\* domain of the name without it, a lowercase alphanumeric slug followed by
\* .com.mx.
C13_LegalSuffixStripped ==
  probe.fn = "guessDomain" =>
     /\ probe.out = probe.bare
     /\ EndsWith(probe.out, <<".", "c", "o", "m", ".", "m", "x">>)
     /\ \A i \in 1..(Len(probe.out) - 7) : probe.out[i] \in Alnum

\* The industries of the table with a keyword in the lowercased name or in
\* the lowercased snippets joined by spaces.
MatchingIndustries(name, webResults) ==
  LET text == toLowerCase(name)
      webText == toLowerCase(JoinSpace([i \in 1..Len(webResults) |-> webResults[i].snippet]))
  IN {i \in 1..Len(Industries) :
        \E k \in 1..Len(Industries[i].keywords) :
           Includes(text, Industries[i].keywords[k])
           \/ Includes(webText, Industries[i].keywords[k])}

ClaimedIndustry(name, webResults) ==
  LET hits == MatchingIndustries(name, webResults) IN
  IF hits = {} THEN <<"g", "e", "n", "e", "r", "a", "l">>
  ELSE Industries[CHOOSE i \in hits : \A j \in hits : i <= j].industry

\* C14: detectIndustry returns the first matching industry of the table and
\* 'general' when none matches; the industry step keeps a supplied industry
\* and detects one only when none was supplied.
C14_FirstMatchIndustry ==
  /\ probe.fn = "detectIndustry" =>
       probe.out = ClaimedIndustry(probe.name, probe.webResults)
  /\ probe.fn = "industryStep" =>
       /\ ~probe.out.threw
       /\ probe.out.r.industry =
            IF Truthy(probe.in.industry) THEN probe.in.industry
            ELSE ClaimedIndustry(probe.in.company_name,
                                 performWebSearch(probe.in.company_name, probe.in.location))
       /\ [probe.out.r EXCEPT !.industry = probe.in.industry] = probe.in

\* A name with keywords of two industries gets the earlier one.
C14_Witness ==
  /\ probe.fn = "detectIndustry" /\ probe.name = <<"T", "i", "e", "n", "d", "a", " ", "W", "e", "b">>
  /\ Cardinality(MatchingIndustries(probe.name, probe.webResults)) = 3
  /\ probe.out = <<"t", "e", "c", "n", "o", "l", "o", "g", "i'", "a">>

\* The stage names in the order the stages run.
StageOrder ==
  <<"web_search", "official_website", "email_generation", "founder_search", "social_media">>

StagePosition(name) == CHOOSE i \in 1..Len(StageOrder) : StageOrder[i] = name

Listed(sources, name) == \E i \in 1..Len(sources) : sources[i] = name

\* C15: the sources of a returned profile are stage names in strictly
\* increasing stage order; a listed stage produced output in this call;
\* official_website is listed exactly when website is set, and then
\* web_search is listed too.
C15_SourcesOrdered ==
  pc = "returned" =>
     LET s == result.sources IN
     /\ \A i \in 1..Len(s) : \E k \in 1..Len(StageOrder) : StageOrder[k] = s[i]
     /\ \A i, j \in 1..Len(s) : i < j => StagePosition(s[i]) < StagePosition(s[j])
     /\ Listed(s, "web_search") =>
          Len(performWebSearch(result.company_name, result.location)) > 0
     /\ Listed(s, "email_generation") => Len(result.emails) > 0
     /\ Listed(s, "founder_search") => Len(result.founders) > 0
     /\ Listed(s, "social_media") => result.social_media /= {}
     /\ Listed(s, "official_website") <=> Truthy(result.website)
     /\ Listed(s, "official_website") => Listed(s, "web_search")

\* A profile to which every stage contributed.
C15_Witness ==
  /\ pc = "returned" /\ result.sources = StageOrder
  /\ Truthy(result.website) /\ Len(result.founders) = 2

\* C16: a batch that answers with success answers with one entry per input
\* company, in input order; processed is the number of input companies,
\* successful the number of entries without enrichment_error, and failed the
\* rest.
C16_BatchCounts ==
  [][ (pc = "loop" /\ req.kind = "batch" /\ pc' = "idle" /\ response'.success) =>
        /\ response'.status = 200
        /\ Len(response'.results) = Len(req.companies)
        /\ \A i \in 1..Len(req.companies) :
             /\ response'.results[i].company_name = ArgName("batch", req.companies[i])
             /\ response'.results[i].phone = ArgPhone("batch", req.companies[i])
        /\ response'.processed = Len(req.companies)
        /\ response'.successful =
             Cardinality({i \in 1..Len(response'.results) :
                            response'.results[i].enrichment_error \in {Absent, ""}})
        /\ response'.successful + response'.failed = response'.processed
        /\ response'.failed >= 0
    ]_vars

\* A batch of two answered with one enriched entry and one error entry.
C16_Witness ==
  /\ pc = "idle" /\ response.status = 200 /\ response.success
  /\ response.total_companies = 2 /\ Len(response.results) = 2
  /\ response.successful = 1 /\ response.failed = 1
  /\ response.results[2].enrichment_error = Absent

\* What handler h's call returns when it runs alone on its own arguments,
\* with its own draws and its own clock readings.
OwnProfile(h) ==
  enrichCompanyComplete(ArgName(h.kind, h.company), ArgPhone(h.kind, h.company),
                        ArgLocation(h.kind, h.company), ArgIndustry(h.kind, h.company),
                        h.founderDraw, h.socialDraw,
                        h.startTime, h.startTime + h.result.processing_time_ms)

\* C17: under every interleaving of two concurrent requests, the profile a
\* call returns is, field by field (identity, emails, website, sources and
\* scores among them), the one that the call's own input, its own discovery
\* outputs and its own clock readings give.
C17_CallsIndependent ==
  \A p \in Procs :
     handlers[p].pc \in {"returned", "save", "delay", "done"} =>
        handlers[p].result = OwnProfile(handlers[p])

\* Two requests for the same company and location with different phones and
\* different draws have both answered, each having started before the other's
\* enrichment ended, and one of them wrote the cache.
C17_Witness ==
  /\ handlers[1].pc = "done" /\ handlers[2].pc = "done"
  /\ handlers[1].result.company_name = handlers[2].result.company_name
  /\ handlers[1].result.location = handlers[2].result.location
  /\ handlers[1].result.phone /= handlers[2].result.phone
  /\ Len(handlers[1].result.founders) /= Len(handlers[2].result.founders)
  /\ handlers[1].startTime < EndOf(handlers[2].result)
  /\ handlers[2].startTime < EndOf(handlers[1].result)
  /\ cache /= {}

=============================================================================
